---- MODULE Spec2Model ----
(***************************************************************************)
(* Photonic Wallet: the chain sync engine (buildUpdateTXOs and the worker  *)
(* that calls it) and the Electrum connection manager (ElectrumManager and *)
(* the worker's connect / failover logic).                                 *)
(***************************************************************************)
EXTENDS Integers, Sequences, FiniteSets, TLC

(***************************************************************************)
(* Bounds of the model.                                                    *)
(***************************************************************************)
\* how many times the remote ledger's unspent sets change in one behaviour
MaxServerChanges == 3
\* ElectrumWS clients whose sockets are not closed, at once
MaxClients == 3
\* pending timers that no timer variable refers to any more
MaxOrphans == 1
\* failovers counted beyond MAX_ATTEMPTS_BEFORE_PAUSE
MaxOvershoot == 1
\* outputs of the wallet offered to one coin selection
MaxUtxos == 2
\* how many times the ledger changes while two invocations race
MaxRaceChanges == 2
\* the longest protocol list validated
MaxProtocols == 3

(***************************************************************************)
(* The world of the sync engine.                                           *)
(***************************************************************************)
\* concurrently running invocations of the subscription callback
Procs == {"p1", "p2"}

\* tracked scripts (script hashes); both belong to the same worker kind
Scripts == {"s1", "s2"}

ContractTypeOf(s) == "RXD"

Txids == {"t1", "t2"}

\* the outpoints the remote ledger may report, in the order it lists them
OutpointSeq == << <<"t1", 0>>, <<"t2", 0>>, <<"t1", 1>> >>

Outpoints == {OutpointSeq[i] : i \in 1..Len(OutpointSeq)}

\* the script an outpoint pays to
OwnerOf(o) == IF o = <<"t1", 1>> THEN "s2" ELSE "s1"

\* value carried by an outpoint
ValueOf(o) == IF o[1] = "t1" THEN 10 + o[2] ELSE 20

\* whether the ledger reports token references for the outpoint
RefsOf(o) == o # <<"t1", 1>>

\* heights the remote ledger reports: 0 for an output in the mempool
Heights == {0, 1}

Absent == 0 - 1

\* JavaScript's Infinity: larger than every block height
Infinity == 1000 + CHOOSE h \in Heights : \A g \in Heights : g <= h

\* "" : the status stored when a subscription record is first created
EmptyStatus == 0

Undefined == "undefined"

NoRecord == [missing |-> TRUE]

VARIABLES
    \* ---- remote ledger
    unspent,            \* outpoint -> Absent or the height the ledger reports
    serverStatus,       \* script -> the status token the ledger pushes
    changes,            \* number of ledger changes so far
    \* ---- local database (Dexie tables)
    txo,                \* db.txo: sequence of records, the index is the id
    subscriptionStatus, \* db.subscriptionStatus: script -> record or NoRecord
    broadcast,          \* db.broadcast: txids the wallet itself broadcast
    \* ---- one invocation of the subscription callback per process
    pc,
    scriptHash,
    newStatus,
    utxos,
    newUtxos,
    confs,
    spent,
    added,
    \* ---- history of an invocation
    sameToken,          \* the stored token equalled the pushed one at entry
    requested,          \* a listunspent request was sent
    seen,               \* outpoints found cached by the scan
    \* ---- history of the engine
    lastSnapshot,       \* script -> unspent set of its last completed refresh
    lastFailed          \* script -> token of a failed fetch not yet retried

VARIABLES
    \* ---- the worker's module state (lines 224-229, 241)
    address,
    servers,
    serverNum,
    reconnectTimer,     \* "none", or the callback of the pending timer
    connectTimer,
    connectionAttempts,
    ready,
    \* ---- ElectrumManager (lines 6-7)
    endpoint,
    client,
    \* ---- the environment of the connection manager
    strays,             \* kind -> clients the manager no longer refers to
    orphans,            \* callback -> pending timers no variable refers to
    broadcastResult     \* how the last call of worker.broadcast ended

VARIABLES
    \* ---- the size estimator: the last call, its argument and what it gave
    estimate,
    \* ---- one coin selection, from the caller's call to its check
    selection,
    \* ---- the last protocol list validated and what validateProtocols gave
    validation

txVars == <<estimate, selection, validation>>

connVars == <<address, servers, serverNum, reconnectTimer, connectTimer,
              connectionAttempts, ready, endpoint, client, strays, orphans,
              broadcastResult>>

ledgerVars == <<unspent, serverStatus, changes>>
dbVars == <<txo, subscriptionStatus, broadcast>>
procVars == <<pc, scriptHash, newStatus, utxos, newUtxos, confs, spent, added>>
histVars == <<sameToken, requested, seen, lastSnapshot, lastFailed>>
syncVars == <<ledgerVars, dbVars, procVars, histVars>>

vars == <<syncVars, connVars, txVars>>

(***************************************************************************)
(* Helpers of the sync engine.                                             *)
(***************************************************************************)
\* an ElectrumUtxo as the ledger reports it now
Utxo(o) ==
    [tx_hash |-> o[1], tx_pos |-> o[2], height |-> unspent[o],
     value |-> ValueOf(o), refs |-> RefsOf(o)]

\* the answer to blockchain.scripthash.listunspent
ListUnspent(s) ==
    LET sel == SelectSeq(OutpointSeq,
                         LAMBDA o : OwnerOf(o) = s /\ unspent[o] # Absent)
    IN  [i \in 1..Len(sel) |-> Utxo(sel[i])]

\* utxo.height || Infinity
HeightOrInfinity(h) == IF h = 0 THEN Infinity ELSE h

\* db.txo.where({ txid, vout }).first(): the id of the record, 0 for none
Exist(txid, vout) ==
    LET ids == {i \in DOMAIN txo : txo[i].txid = txid /\ txo[i].vout = vout}
    IN  IF ids = {} THEN 0 ELSE CHOOSE i \in ids : \A j \in ids : i <= j

\* the worker's scriptBuilder: no script for an output without references
scriptBuilder(s, utxo) == IF utxo.refs THEN s ELSE Undefined

\* `${utxo.tx_hash}${utxo.tx_pos}` of every fetched output
OutpointsOf(us) == {<<us[i].tx_hash, us[i].tx_pos>> : i \in DOMAIN us}

SyncStarted == [done |-> FALSE]
SyncCounting(n) == [done |-> FALSE, numSynced |-> 0, numTotal |-> n]
SyncDone == [done |-> TRUE]

NoConfs == [i \in {} |-> Undefined]

(***************************************************************************)
(* Initial state: an empty cache, an empty ledger, every callback idle; the *)
(* wallet has broadcast transaction t1 itself.                              *)
(***************************************************************************)
InitSync ==
    /\ unspent = [o \in Outpoints |-> Absent]
    /\ serverStatus = [s \in Scripts |-> 1]
    /\ changes = 0
    /\ txo = << >>
    /\ subscriptionStatus = [s \in Scripts |-> NoRecord]
    /\ broadcast = {"t1"}
    /\ pc = [p \in Procs |-> "idle"]
    /\ scriptHash = [p \in Procs |-> "s1"]
    /\ newStatus = [p \in Procs |-> EmptyStatus]
    /\ utxos = [p \in Procs |-> << >>]
    /\ newUtxos = [p \in Procs |-> << >>]
    /\ confs = [p \in Procs |-> NoConfs]
    /\ spent = [p \in Procs |-> {}]
    /\ added = [p \in Procs |-> << >>]
    /\ sameToken = [p \in Procs |-> FALSE]
    /\ requested = [p \in Procs |-> FALSE]
    /\ seen = [p \in Procs |-> {}]
    /\ lastSnapshot = [s \in Scripts |-> {}]
    /\ lastFailed = [s \in Scripts |-> EmptyStatus]

(***************************************************************************)
(* The remote ledger: the unspent set of a script changes to any other     *)
(* set (outputs appear, are spent, are mined or moved by a reorganisation) *)
(* and the script's status token changes with it.                          *)
(***************************************************************************)
OwnedBy(s) == {o \in Outpoints : OwnerOf(o) = s}

\* A change while an invocation already holds its fetched list is the same as
\* the change right after that invocation: nothing past the fetch reads the
\* ledger. Such a change is taken then.
NewSnapshot(s, f) ==
    /\ changes < MaxServerChanges
    /\ \A p \in Procs : pc[p] \in {"idle", "fetch"}
    /\ \E o \in OwnedBy(s) : f[o] # unspent[o]
    /\ unspent' = [o \in Outpoints |-> IF o \in OwnedBy(s) THEN f[o]
                                                          ELSE unspent[o]]
    /\ serverStatus' = [serverStatus EXCEPT ![s] = @ + 1]
    /\ changes' = changes + 1
    /\ UNCHANGED <<connVars, txVars, dbVars, procVars, histVars>>

(***************************************************************************)
(* buildUpdateTXOs, one action per stretch between its suspension points.  *)
(***************************************************************************)
\* other invocations are in progress
Busy(p) == \E q \in Procs \ {p} : pc[q] # "idle"

\* lines 87-98: mark the script as syncing, creating its record if missing
MarkSyncing(s) ==
    IF subscriptionStatus[s] = NoRecord
    THEN [scriptHash |-> s, status |-> EmptyStatus,
          contractType |-> ContractTypeOf(s), sync |-> SyncStarted]
    ELSE [subscriptionStatus[s] EXCEPT !.sync = SyncStarted]

\* mutant of StatusUnchanged: the comparison also waits for the sync marker
StatusUnchangedWhenDone(rec, status) == rec.status = status /\ rec.sync.done

\* lines 101-106: the stored status equals the pushed one
StatusUnchanged(rec, status) == rec.status = status

\* lines 87-110: a pushed (scriptHash, newStatus) event enters the function
Begin(p, s) ==
    /\ pc[p] = "idle"
    /\ LET status == serverStatus[s]
           rec == MarkSyncing(s)
       IN  /\ subscriptionStatus' = [subscriptionStatus EXCEPT ![s] = rec]
           /\ scriptHash' = [scriptHash EXCEPT ![p] = s]
           /\ newStatus' = [newStatus EXCEPT ![p] = status]
           /\ pc' = [pc EXCEPT ![p] =
                        IF StatusUnchanged(rec, status) THEN "unchanged"
                                                        ELSE "fetch"]
           /\ sameToken' = [sameToken EXCEPT ![p] =
                               /\ subscriptionStatus[s] # NoRecord
                               /\ subscriptionStatus[s].status = status]
    /\ utxos' = [utxos EXCEPT ![p] = << >>]
    /\ newUtxos' = [newUtxos EXCEPT ![p] = << >>]
    /\ confs' = [confs EXCEPT ![p] = NoConfs]
    /\ spent' = [spent EXCEPT ![p] = {}]
    /\ added' = [added EXCEPT ![p] = << >>]
    /\ requested' = [requested EXCEPT ![p] = FALSE]
    /\ seen' = [seen EXCEPT ![p] = {}]
    /\ UNCHANGED <<connVars, txVars, ledgerVars, txo, broadcast, lastSnapshot, lastFailed>>

\* lines 113-121: the request is answered with the current unspent set
FetchOk(p) ==
    /\ pc[p] = "fetch"
    /\ utxos' = [utxos EXCEPT ![p] = ListUnspent(scriptHash[p])]
    /\ subscriptionStatus' =
           [subscriptionStatus EXCEPT ![scriptHash[p]].sync =
               SyncCounting(Len(ListUnspent(scriptHash[p])))]
    /\ requested' = [requested EXCEPT ![p] = TRUE]
    /\ pc' = [pc EXCEPT ![p] = "scan"]
    /\ UNCHANGED <<connVars, txVars, ledgerVars, txo, broadcast, scriptHash, newStatus, newUtxos,
                   confs, spent, added, sameToken, seen, lastSnapshot,
                   lastFailed>>

\* mutant of FetchFail: the failed refresh stamps the pushed token
FetchFailStamped(p) ==
    /\ pc[p] = "fetch"
    /\ pc' = [pc EXCEPT ![p] = "idle"]
    /\ subscriptionStatus' =
           [subscriptionStatus EXCEPT ![scriptHash[p]].status = newStatus[p]]
    /\ lastFailed' = [lastFailed EXCEPT ![scriptHash[p]] = newStatus[p]]
    /\ scriptHash' = [scriptHash EXCEPT ![p] = "s1"]
    /\ newStatus' = [newStatus EXCEPT ![p] = EmptyStatus]
    /\ sameToken' = [sameToken EXCEPT ![p] = FALSE]
    /\ UNCHANGED <<connVars, txVars, ledgerVars, txo, broadcast, utxos, newUtxos, confs, spent,
                   added, requested, seen, lastSnapshot>>

\* lines 113-120: the request rejects, or electrum.client is undefined (then
\* utxos is undefined and utxos.length throws before the record is touched);
\* the exception ends the invocation and its caller
FetchFail(p) ==
    /\ pc[p] = "fetch"
    /\ pc' = [pc EXCEPT ![p] = "idle"]
    /\ lastFailed' = [lastFailed EXCEPT ![scriptHash[p]] = newStatus[p]]
    /\ scriptHash' = [scriptHash EXCEPT ![p] = "s1"]
    /\ newStatus' = [newStatus EXCEPT ![p] = EmptyStatus]
    /\ sameToken' = [sameToken EXCEPT ![p] = FALSE]
    /\ UNCHANGED <<connVars, txVars, ledgerVars, dbVars, utxos, newUtxos, confs, spent, added,
                   requested, seen, lastSnapshot>>

\* lines 129-142: the fetched outputs not yet cached, in the order fetched
NewUtxos(us) ==
    SelectSeq(us, LAMBDA u : Exist(u.tx_hash, u.tx_pos) = 0)

\* line 138: the cached height differs from the reported one
HeightDiffers(cached, reported) == cached # reported

\* lines 128-142: cached outputs whose height changed, by record id
Confs(us) ==
    LET hit == {i \in DOMAIN us :
                   /\ Exist(us[i].tx_hash, us[i].tx_pos) # 0
                   /\ HeightDiffers(
                          txo[Exist(us[i].tx_hash, us[i].tx_pos)].height,
                          us[i].height)}
        ids == {Exist(us[i].tx_hash, us[i].tx_pos) : i \in hit}
    IN  [id \in ids |->
            us[CHOOSE i \in hit : Exist(us[i].tx_hash, us[i].tx_pos) = id]]

\* lines 123-142
Scan(p) ==
    /\ pc[p] = "scan"
    /\ newUtxos' = [newUtxos EXCEPT ![p] = NewUtxos(utxos[p])]
    /\ confs' = [confs EXCEPT ![p] = Confs(utxos[p])]
    /\ seen' = [seen EXCEPT ![p] =
                   {o \in OutpointsOf(utxos[p]) :
                       \E i \in DOMAIN txo : <<txo[i].txid, txo[i].vout>> = o}]
    /\ pc' = [pc EXCEPT ![p] = "spent"]
    /\ UNCHANGED <<connVars, txVars, ledgerVars, dbVars, scriptHash, newStatus, utxos, spent,
                   added, sameToken, requested, lastSnapshot, lastFailed>>

\* lines 145-146: ids of the cached unspent outputs missing from the fetch
SpentIds(contractType, outpoints) ==
    {i \in DOMAIN txo :
        /\ txo[i].contractType = contractType
        /\ txo[i].spent = 0
        /\ <<txo[i].txid, txo[i].vout>> \notin outpoints}

\* lines 144-154
MarkSpent(p) ==
    /\ pc[p] = "spent"
    /\ LET ids == SpentIds(ContractTypeOf(scriptHash[p]), OutpointsOf(utxos[p]))
       IN  /\ spent' = [spent EXCEPT ![p] =
                  {[id |-> i, value |-> txo[i].value, script |-> txo[i].script]
                      : i \in ids}]
           /\ txo' = [i \in DOMAIN txo |->
                  IF i \in ids THEN [txo[i] EXCEPT !.spent = 1] ELSE txo[i]]
    /\ pc' = [pc EXCEPT ![p] = "added"]
    /\ UNCHANGED <<connVars, txVars, ledgerVars, subscriptionStatus, broadcast, scriptHash,
                   newStatus, utxos, newUtxos, confs, added, histVars>>

\* mutant of IsOwnTx: the two outcomes of the lookup are swapped
IsOwnTxSwapped(txid) == IF txid \in broadcast THEN 0 ELSE 1

\* line 164: the output's transaction is in the broadcast table
IsOwnTx(txid) == IF txid \in broadcast THEN 1 ELSE 0

\* lines 166-178
NewTxO(s, utxo) ==
    [txid |-> utxo.tx_hash, vout |-> utxo.tx_pos,
     script |-> scriptBuilder(s, utxo), value |-> utxo.value,
     height |-> HeightOrInfinity(utxo.height), spent |-> 0,
     change |-> IsOwnTx(utxo.tx_hash), contractType |-> ContractTypeOf(s)]

\* lines 156-183: one record per new output that has a script
Added(s, us) ==
    LET kept == SelectSeq(us, LAMBDA u : scriptBuilder(s, u) # Undefined)
    IN  [i \in 1..Len(kept) |-> NewTxO(s, kept[i])]

BuildAdded(p) ==
    /\ pc[p] = "added"
    /\ added' = [added EXCEPT ![p] = Added(scriptHash[p], newUtxos[p])]
    /\ pc' = [pc EXCEPT ![p] = "confs"]
    /\ UNCHANGED <<connVars, txVars, ledgerVars, dbVars, scriptHash, newStatus, utxos, newUtxos,
                   confs, spent, histVars>>

\* lines 185-195: the height updates, then the function returns
UpdateConfs(p) ==
    /\ pc[p] = "confs"
    /\ txo' = [i \in DOMAIN txo |->
                  IF i \in DOMAIN confs[p]
                  THEN [txo[i] EXCEPT
                           !.height = HeightOrInfinity(confs[p][i].height)]
                  ELSE txo[i]]
    /\ pc' = [pc EXCEPT ![p] = "returned"]
    /\ UNCHANGED <<connVars, txVars, ledgerVars, subscriptionStatus, broadcast, scriptHash,
                   newStatus, utxos, newUtxos, confs, spent, added, histVars>>

(***************************************************************************)
(* The caller of buildUpdateTXOs (the worker's subscription callback):     *)
(* writes the additions, stamps the status token and ends the sync.        *)
(***************************************************************************)
Complete(p) ==
    /\ pc[p] \in {"unchanged", "returned"}
    /\ txo' = txo \o added[p]
    /\ subscriptionStatus' =
           [subscriptionStatus EXCEPT ![scriptHash[p]] =
               [@ EXCEPT !.status = newStatus[p], !.sync = SyncDone]]
    /\ lastSnapshot' =
           IF pc[p] = "returned"
           THEN [lastSnapshot EXCEPT ![scriptHash[p]] = OutpointsOf(utxos[p])]
           ELSE lastSnapshot
    /\ lastFailed' =
           IF pc[p] = "returned"
           THEN [lastFailed EXCEPT ![scriptHash[p]] = EmptyStatus]
           ELSE lastFailed
    /\ pc' = [pc EXCEPT ![p] = "idle"]
    \* the invocation's locals die with it
    /\ utxos' = [utxos EXCEPT ![p] = << >>]
    /\ newUtxos' = [newUtxos EXCEPT ![p] = << >>]
    /\ confs' = [confs EXCEPT ![p] = NoConfs]
    /\ spent' = [spent EXCEPT ![p] = {}]
    /\ added' = [added EXCEPT ![p] = << >>]
    /\ seen' = [seen EXCEPT ![p] = {}]
    /\ scriptHash' = [scriptHash EXCEPT ![p] = "s1"]
    /\ newStatus' = [newStatus EXCEPT ![p] = EmptyStatus]
    /\ sameToken' = [sameToken EXCEPT ![p] = FALSE]
    /\ requested' = [requested EXCEPT ![p] = FALSE]
    /\ UNCHANGED <<connVars, txVars, ledgerVars, broadcast>>

NextSync ==
    \/ \E s \in Scripts :
           \E f \in [OwnedBy(s) -> {Absent} \cup Heights] : NewSnapshot(s, f)
    \/ \E s \in Scripts : Begin("p1", s)
    \/ \E p \in Procs : FetchOk(p)
    \/ \E p \in Procs : FetchFail(p)
    \/ \E p \in Procs : Scan(p)
    \/ \E p \in Procs : MarkSpent(p)
    \/ \E p \in Procs : BuildAdded(p)
    \/ \E p \in Procs : UpdateConfs(p)
    \/ \E p \in Procs : Complete(p)

(***************************************************************************)
(* Two invocations at once. Nothing in buildUpdateTXOs makes a second      *)
(* status event wait for the refresh that is running: the invocations      *)
(* interleave at their awaits. The ledger may change, and push its event,  *)
(* while the answer to a listunspent request is on its way or waits to be  *)
(* processed.                                                              *)
(***************************************************************************)
\* the unspent set of the raced script changes, whatever the invocations
\* are doing
RaceSnapshot(s, f) ==
    /\ changes < MaxRaceChanges
    /\ \E o \in OwnedBy(s) : f[o] # unspent[o]
    /\ unspent' = [o \in Outpoints |-> IF o \in OwnedBy(s) THEN f[o]
                                                          ELSE unspent[o]]
    /\ serverStatus' = [serverStatus EXCEPT ![s] = @ + 1]
    /\ changes' = changes + 1
    /\ UNCHANGED <<connVars, txVars, dbVars, procVars, histVars>>

\* the script both invocations refresh
RacedScript == "s1"

NextRace ==
    \/ \E f \in [OwnedBy(RacedScript) -> {Absent} \cup Heights] :
           RaceSnapshot(RacedScript, f)
    \/ \E p \in Procs : Begin(p, RacedScript)
    \/ \E p \in Procs : FetchOk(p)
    \/ \E p \in Procs : Scan(p)
    \/ \E p \in Procs : MarkSpent(p)
    \/ \E p \in Procs : BuildAdded(p)
    \/ \E p \in Procs : UpdateConfs(p)
    \/ \E p \in Procs : Complete(p)

(***************************************************************************)
(* The connection manager: the worker's connect / failover / pause logic   *)
(* and the ElectrumManager it drives. A handler runs to completion, calls  *)
(* included, so each handler is a function from the state before it to the *)
(* state after it, and an action applies one handler.                      *)
(***************************************************************************)
MAX_ATTEMPTS_BEFORE_PAUSE == 10

Addresses == {"a1", "a2"}
\* endpoints that are no URL: the ElectrumWS constructor throws on them
Malformed == {"bad"}
\* the endpoint lists the wallet is configured with
ServerLists == {<<"e1">>, <<"e1", "e2">>, <<"bad", "e1">>}
\* the reasons the wallet passes to disconnect
DisconnectReasons == {"user"}

NoTimer == "none"
TimerCallbacks == {"tryNextServer", "pauseEnd"}

\* An ElectrumWS: its socket's state, the endpoint it was created for, the
\* reason it was closed with, and gen, which tells a client from the one
\* created before it.
NoClient ==
    [state |-> Undefined, endpoint |-> Undefined, reason |-> "", gen |-> 0]
\* the clients the manager has replaced and whose sockets are not closed yet
StrayKinds ==
    {<<"connecting", "">>, <<"open", "">>, <<"closing", "">>}
        \cup {<<"closing", r>> : r \in DisconnectReasons}

InitConn ==
    /\ address = ""
    /\ servers = << >>
    /\ serverNum = 0
    /\ reconnectTimer = NoTimer
    /\ connectTimer = NoTimer
    /\ connectionAttempts = 0
    /\ ready = FALSE
    /\ endpoint = Undefined
    /\ client = NoClient
    /\ strays = [k \in StrayKinds |-> 0]
    /\ orphans = [cb \in TimerCallbacks |-> 0]
    /\ broadcastResult = "none"

\* the state a handler starts from; result is changeEndpoint's return value,
\* overflow says that the handler needs more clients or timers than the bounds
Cur ==
    [address |-> address, servers |-> servers, serverNum |-> serverNum,
     reconnectTimer |-> reconnectTimer, connectTimer |-> connectTimer,
     connectionAttempts |-> connectionAttempts, ready |-> ready,
     endpoint |-> endpoint, client |-> client, strays |-> strays,
     orphans |-> orphans, result |-> FALSE, overflow |-> FALSE]

\* the state a handler leaves
Apply(w) ==
    /\ ~w.overflow
    /\ address' = w.address
    /\ servers' = w.servers
    /\ serverNum' = w.serverNum
    /\ reconnectTimer' = w.reconnectTimer
    /\ connectTimer' = w.connectTimer
    /\ connectionAttempts' = w.connectionAttempts
    /\ ready' = w.ready
    /\ endpoint' = w.endpoint
    /\ client' = w.client
    /\ strays' = w.strays
    /\ orphans' = w.orphans
    /\ UNCHANGED <<broadcastResult, syncVars, txVars>>

RECURSIVE Sum(_, _)
Sum(f, S) ==
    IF S = {} THEN 0
    ELSE LET x == CHOOSE y \in S : TRUE IN f[x] + Sum(f, S \ {x})

OrphanCount(w) == Sum(w.orphans, TimerCallbacks)

\* the clients whose sockets are not closed
ClientCount(w) ==
    Sum(w.strays, StrayKinds)
        + (IF w.client.state \in {"connecting", "open", "closing"}
           THEN 1 ELSE 0)

\* a pending timer whose handle is overwritten stays pending
Orphaned(w, cb) ==
    IF cb = NoTimer THEN w
    ELSE [w EXCEPT !.orphans[cb] = @ + 1,
                   !.overflow = @ \/ OrphanCount(w) >= MaxOrphans]

\* lines 335-342: both timers are cancelled; the variables keep the stale
\* ids, which clearTimeout ignores from then on
clearTimers(w) ==
    [w EXCEPT !.connectTimer = NoTimer, !.reconnectTimer = NoTimer]

\* connectTimer = setTimeout(tryNextServer, FAILOVER_TIMEOUT)
SetConnectTimer(w) ==
    [Orphaned(w, w.connectTimer) EXCEPT !.connectTimer = "tryNextServer"]

\* reconnectTimer = setTimeout(cb, ...)
SetReconnectTimer(w, cb) ==
    [Orphaned(w, w.reconnectTimer) EXCEPT !.reconnectTimer = cb]

\* lines 9-11, with ElectrumWS.isConnected
connected(w) == w.client.state = "open"

\* ElectrumWS.close(reason) on the current client: the socket closes and
\* the close event follows
close(w, reason) ==
    IF w.client.state \in {"connecting", "open"}
    THEN [w EXCEPT !.client.state = "closing", !.client.reason = reason]
    ELSE w

\* new ElectrumWS(e) takes the place of the current client, which lives on
\* for as long as its socket does
Replaced(w, e) ==
    LET old == <<w.client.state, w.client.reason>>
        w1 == IF old \in StrayKinds
              THEN [w EXCEPT !.strays[old] = @ + 1,
                             !.overflow = @ \/ ClientCount(w) >= MaxClients]
              ELSE w
    IN  [w1 EXCEPT !.client = [state |-> "connecting", endpoint |-> e,
                               reason |-> "", gen |-> 1 - w.client.gen]]

\* lines 19-41
changeEndpoint(w, e) ==
    LET w1 == IF connected(w) THEN close(w, "") ELSE w
        w2 == [w1 EXCEPT !.endpoint = e]
    IN  IF e \in Malformed THEN [w2 EXCEPT !.result = FALSE]
        ELSE [Replaced(w2, e) EXCEPT !.result = TRUE]

Max(a, b) == IF a >= b THEN a ELSE b

RECURSIVE connect(_, _), tryNextServer(_)

\* lines 248-269 (the status written to db.kvp is read by the interface only)
connect(w, _address) ==
    LET e == w.servers[w.serverNum + 1]
        w1 == changeEndpoint(
                  [w EXCEPT !.ready = TRUE, !.address = _address], e)
    IN  IF w.endpoint # e \/ w.address # _address
        THEN IF ~w1.result THEN tryNextServer(w1)
             ELSE SetConnectTimer(clearTimers(w1))
        ELSE w

\* lines 344-362
tryNextServer(w) ==
    LET totalServers == Max(1, Len(w.servers))
        w1 == [w EXCEPT !.connectionAttempts = @ + 1,
                        !.serverNum = (@ + 1) % totalServers,
                        !.overflow =
                            @ \/ w.connectionAttempts >=
                                     MAX_ATTEMPTS_BEFORE_PAUSE + MaxOvershoot]
    IN  IF w1.connectionAttempts >= MAX_ATTEMPTS_BEFORE_PAUSE
        THEN SetReconnectTimer(w1, "pauseEnd")
        ELSE connect(w1, w1.address)

\* lines 353-356: the callback of the pause timer
pauseEnd(w) == connect([w EXCEPT !.connectionAttempts = 0], w.address)

RunTimer(w, cb) ==
    IF cb = "tryNextServer" THEN tryNextServer(w) ELSE pauseEnd(w)

\* lines 364-375 (registering the address starts the sync engine's
\* subscriptions and changes nothing here)
onConnected(w) == [clearTimers(w) EXCEPT !.connectionAttempts = 0]

\* lines 381-392
onClose(w, reason) ==
    IF reason = "" THEN SetReconnectTimer(w, "tryNextServer") ELSE w

(* ------------------------- the worker's interface ---------------------- *)
\* lines 243-247
SetServers(newServers) ==
    /\ serverNum' = 0
    /\ servers' = newServers
    /\ UNCHANGED <<address, reconnectTimer, connectTimer, connectionAttempts,
                   ready, endpoint, client, strays, orphans, broadcastResult,
                   syncVars, txVars>>

\* lines 248-269; the wallet sets the servers before it connects
Connect(_address) ==
    /\ servers # << >>
    /\ Apply(connect(Cur, _address))

\* lines 270-272, 43-48
Reconnect ==
    /\ endpoint # Undefined
    /\ Apply(changeEndpoint(Cur, endpoint))

\* lines 273-275, 50-54
Disconnect(reason) ==
    /\ client # NoClient
    /\ Apply(close(Cur, reason))

(* ------------------------------- timers -------------------------------- *)
ConnectTimerFires ==
    /\ connectTimer # NoTimer
    /\ Apply(RunTimer([Cur EXCEPT !.connectTimer = NoTimer], connectTimer))

ReconnectTimerFires ==
    /\ reconnectTimer # NoTimer
    /\ Apply(RunTimer([Cur EXCEPT !.reconnectTimer = NoTimer],
                      reconnectTimer))

OrphanTimerFires(cb) ==
    /\ orphans[cb] > 0
    /\ Apply(RunTimer([Cur EXCEPT !.orphans[cb] = @ - 1], cb))

(* ---------------------------- client events ---------------------------- *)
\* the socket of the current client opens
ClientConnected ==
    /\ client.state = "connecting"
    /\ Apply(onConnected([Cur EXCEPT !.client.state = "open"]))

\* the close event that follows close(reason)
ClientClosed ==
    /\ client.state = "closing"
    /\ Apply(onClose([Cur EXCEPT !.client.state = "closed"], client.reason))

\* the connection fails or is lost: a close event without a reason
ClientDropped ==
    /\ client.state \in {"connecting", "open"}
    /\ Apply(onClose([Cur EXCEPT !.client.state = "closed"], ""))

\* the same events of a client that the manager has replaced: its handlers
\* are the worker's too (lines 35-38)
StrayConnected ==
    /\ strays[<<"connecting", "">>] > 0
    /\ Apply(onConnected([Cur EXCEPT !.strays[<<"connecting", "">>] = @ - 1,
                                     !.strays[<<"open", "">>] = @ + 1]))

StrayClosed(r) ==
    /\ strays[<<"closing", r>>] > 0
    /\ Apply(onClose([Cur EXCEPT !.strays[<<"closing", r>>] = @ - 1], r))

StrayDropped(k) ==
    /\ k[1] \in {"connecting", "open"}
    /\ strays[k] > 0
    /\ Apply(onClose([Cur EXCEPT !.strays[k] = @ - 1], ""))

\* lines 276-286: the error is thrown only when no client was ever created;
\* otherwise the transaction is handed to the client's request
workerBroadcast(w) ==
    IF w.client.state = Undefined THEN "NotConnected" ELSE "requested"

Broadcast ==
    /\ broadcastResult' = workerBroadcast(Cur)
    /\ UNCHANGED <<address, servers, serverNum, reconnectTimer, connectTimer,
                   connectionAttempts, ready, endpoint, client, strays,
                   orphans, syncVars, txVars>>

NextConn ==
    \/ \E l \in ServerLists : SetServers(l)
    \/ \E a \in Addresses : Connect(a)
    \/ Reconnect
    \/ \E r \in DisconnectReasons : Disconnect(r)
    \/ ConnectTimerFires
    \/ ReconnectTimerFires
    \/ \E cb \in TimerCallbacks : OrphanTimerFires(cb)
    \/ ClientConnected
    \/ ClientClosed
    \/ ClientDropped
    \/ StrayConnected
    \/ \E r \in {""} \cup DisconnectReasons : StrayClosed(r)
    \/ \E k \in StrayKinds : StrayDropped(k)

(* The manager left to itself: the wallet sets the servers and connects    *)
(* once (part_003, lines 111-119) and calls nothing afterwards. Every      *)
(* endpoint for which a client can be constructed accepts the connection   *)
(* whenever it is tried, so a socket that is opening opens; a connection   *)
(* that is established may be lost. Timers that are pending fire and the   *)
(* events of the sockets are delivered.                                    *)
\* an established connection of the current client is lost
ConnectionLost ==
    /\ client.state = "open"
    /\ ClientDropped

\* the same for a client that the manager has replaced
StrayLost == StrayDropped(<<"open", "">>)

NextLive ==
    \/ servers = << >> /\ \E l \in ServerLists : SetServers(l)
    \/ ~ready /\ \E a \in Addresses : Connect(a)
    \/ ConnectTimerFires
    \/ ReconnectTimerFires
    \/ \E cb \in TimerCallbacks : OrphanTimerFires(cb)
    \/ ClientConnected
    \/ StrayConnected
    \/ StrayClosed("")
    \/ ConnectionLost
    \/ StrayLost

\* setTimeout callbacks run and socket events are dispatched by the event
\* loop as soon as they are due; the loss of a connection is never due
FairLive ==
    /\ WF_vars(ConnectTimerFires)
    /\ WF_vars(ReconnectTimerFires)
    /\ WF_vars(\E cb \in TimerCallbacks : OrphanTimerFires(cb))
    /\ WF_vars(ClientConnected)
    /\ WF_vars(StrayConnected)
    /\ WF_vars(StrayClosed(""))

(***************************************************************************)
(* The size estimator (utils.js of the coin selection package, as patched).*)
(* A count is a number of up to 80 bits, written as five 16-bit digits,    *)
(* lowest first, so that the breakpoints at 2^32 and 2^64 are in range.    *)
(***************************************************************************)
Base == 65536
TX_INPUT_BASE == 32 + 4 + 4
TX_INPUT_PUBKEYHASH == 107
TX_OUTPUT_BASE == 8
TX_OUTPUT_PUBKEYHASH == 25

\* the digits that counts are made of here
Digits == {0, 1, 252, 253, Base - 1}
Counts == [1 .. 5 -> Digits]
\* the number k as a count
Count(k) == [i \in 1 .. 5 |-> IF i = 1 THEN k % Base
                              ELSE IF i = 2 THEN k \div Base ELSE 0]

RECURSIVE LessFrom(_, _, _)
\* a < b, comparing from digit i downwards
LessFrom(a, b, i) ==
    IF i = 0 THEN FALSE
    ELSE IF a[i] # b[i] THEN a[i] < b[i]
    ELSE LessFrom(a, b, i - 1)

Less(a, b) == LessFrom(a, b, 5)
LessEq(a, b) == a = b \/ Less(a, b)

\* 65535, 4294967295 and 18446744073709551615
MaxUint16 == [i \in 1 .. 5 |-> IF i <= 1 THEN Base - 1 ELSE 0]
MaxUint32 == [i \in 1 .. 5 |-> IF i <= 2 THEN Base - 1 ELSE 0]
MaxUint64 == [i \in 1 .. 5 |-> IF i <= 4 THEN Base - 1 ELSE 0]

\* what a call gives: a number of bytes, or the error it throws
Returns(size) == [size |-> size, error |-> ""]
Throws(error) == [size |-> 0, error |-> error]
InvalidVarInt == Throws("Invalid VarInt")

\* the patch had the first test as n <= 253
varIntSizeOffByOne(n) ==
    IF LessEq(n, Count(253)) THEN Returns(1)
    ELSE IF LessEq(n, MaxUint16) THEN Returns(3)
    ELSE IF LessEq(n, MaxUint32) THEN Returns(5)
    ELSE IF LessEq(n, MaxUint64) THEN Returns(9)
    ELSE InvalidVarInt

\* part_000 lines 34-46
varIntSize(n) ==
    IF Less(n, Count(253)) THEN Returns(1)
    ELSE IF LessEq(n, MaxUint16) THEN Returns(3)
    ELSE IF LessEq(n, MaxUint32) THEN Returns(5)
    ELSE IF LessEq(n, MaxUint64) THEN Returns(9)
    ELSE InvalidVarInt

\* A script of an input or output: a Script object (with toHex), a string
\* of hexadecimal characters, or none; hexLen is the number of characters
\* of its hexadecimal form, two for each byte.
ScriptBytes == {0, 1, 25, 107, 252, 253, Base - 1, Base}
Scripted ==
    [kind : {"Script", "hex"}, hexLen : {2 * b : b \in ScriptBytes}]
        \cup {[kind |-> "none", hexLen |-> 0]}

\* input.script && ... : undefined and the empty string are falsy
Truthy(script) ==
    \/ script.kind = "Script"
    \/ script.kind = "hex" /\ script.hexLen > 0

\* the unpatched lines 54 and 57: the number of characters
inputBytesInHex(input) ==
    LET scriptLen == IF Truthy(input) THEN input.hexLen
                     ELSE TX_INPUT_PUBKEYHASH
        prefix == varIntSize(Count(scriptLen))
    IN  IF prefix.error # "" THEN prefix
        ELSE Returns(TX_INPUT_BASE + prefix.size + scriptLen)

\* part_000 lines 51-64
inputBytes(input) ==
    LET scriptLen == IF Truthy(input) THEN input.hexLen \div 2
                     ELSE TX_INPUT_PUBKEYHASH
        prefix == varIntSize(Count(scriptLen))
    IN  IF prefix.error # "" THEN prefix
        ELSE Returns(TX_INPUT_BASE + prefix.size + scriptLen)

\* the length of a known locking script; the lines that measure it (44-47
\* of the patched utils.js) are in no hunk of the patch
outputScriptLen(output) == output.hexLen \div 2

\* the unpatched line 71: no count prefix
outputBytesNoPrefix(output) ==
    LET scriptLen == IF Truthy(output) THEN outputScriptLen(output)
                     ELSE TX_OUTPUT_PUBKEYHASH
    IN  Returns(TX_OUTPUT_BASE + scriptLen)

\* part_000 lines 67-73
outputBytes(output) ==
    LET scriptLen == IF Truthy(output) THEN outputScriptLen(output)
                     ELSE TX_OUTPUT_PUBKEYHASH
        prefix == varIntSize(Count(scriptLen))
    IN  IF prefix.error # "" THEN prefix
        ELSE Returns(TX_OUTPUT_BASE + prefix.size + scriptLen)

NoEstimate == [fn |-> "none"]

InitTx == estimate = NoEstimate

\* The estimator is synchronous: a call starts when none is running, and
\* its result stands until the caller has taken it.
VarIntSize(n) ==
    /\ estimate.fn = "none"
    /\ estimate' = [fn |-> "varIntSize", arg |-> n, result |-> varIntSize(n)]
    /\ UNCHANGED <<syncVars, connVars, selection, validation>>

InputBytes(input) ==
    /\ estimate.fn = "none"
    /\ estimate' =
           [fn |-> "inputBytes", arg |-> input, result |-> inputBytes(input)]
    /\ UNCHANGED <<syncVars, connVars, selection, validation>>

OutputBytes(output) ==
    /\ estimate.fn = "none"
    /\ estimate' =
           [fn |-> "outputBytes", arg |-> output,
            result |-> outputBytes(output)]
    /\ UNCHANGED <<syncVars, connVars, selection, validation>>

Returned ==
    /\ estimate.fn # "none"
    /\ estimate' = NoEstimate
    /\ UNCHANGED <<syncVars, connVars, selection, validation>>

NextSize ==
    \/ \E n \in Counts : VarIntSize(n)
    \/ \E input \in Scripted : InputBytes(input)
    \/ \E output \in Scripted : OutputBytes(output)
    \/ Returned

(***************************************************************************)
(* Coin selection. Of accumulative and finalize the patch shows the head   *)
(* of the loop and the fee ceiling, of dustThreshold its constant; fundTx  *)
(* is not in the sources. Their remaining steps follow the specification's *)
(* algorithm; the callers' checks are those of burn.ts and OpenOrders.tsx. *)
(* Amounts are numbers of the width of the counts above, since the fee     *)
(* ceiling does not fit a machine integer of the checker.                  *)
(***************************************************************************)
TX_EMPTY_SIZE == 4 + 4
TX_DUST_THRESHOLD == 1

RECURSIVE SumFrom(_, _, _)
\* q[lo] + ... + q[hi]
SumFrom(q, lo, hi) ==
    IF lo > hi THEN 0
    ELSE IF lo = hi THEN q[lo]
    ELSE SumFrom(q, lo, (lo + hi) \div 2)
             + SumFrom(q, (lo + hi) \div 2 + 1, hi)

SeqSum(q) == SumFrom(q, 1, Len(q))

RECURSIVE Carry(_, _)
\* what the digits of d below digit i carry into it (borrow, if negative)
Carry(d, i) == IF i = 1 THEN 0 ELSE (d[i - 1] + Carry(d, i - 1)) \div Base

Digit(d, i) == (d[i] + Carry(d, i)) % Base

\* the number with digits d, each digit brought into 0 .. Base - 1
Norm(d) == <<Digit(d, 1), Digit(d, 2), Digit(d, 3), Digit(d, 4), Digit(d, 5)>>

Plus(a, b) ==
    Norm(<<a[1] + b[1], a[2] + b[2], a[3] + b[3], a[4] + b[4], a[5] + b[5]>>)

\* a - b for a >= b
Minus(a, b) ==
    Norm(<<a[1] - b[1], a[2] - b[2], a[3] - b[3], a[4] - b[4], a[5] - b[5]>>)

\* a * k for a number of bytes k
Times(a, k) == Norm(<<a[1] * k, a[2] * k, a[3] * k, a[4] * k, a[5] * k>>)

Values(q) == [i \in DOMAIN q |-> q[i].value]

\* the sum of the digits i of the amounts q
DigitSum(q, i) == SeqSum([j \in DOMAIN q |-> q[j][i]])

\* the sum of amounts
Total(q) ==
    Norm(<<DigitSum(q, 1), DigitSum(q, 2), DigitSum(q, 3), DigitSum(q, 4),
           DigitSum(q, 5)>>)

\* part_000 lines 76-82
transactionBytes(inputs, outputs) ==
    TX_EMPTY_SIZE
        + varIntSize(Count(Len(inputs))).size
        + SeqSum([i \in DOMAIN inputs |-> inputBytes(inputs[i]).size])
        + varIntSize(Count(Len(outputs))).size
        + SeqSum([i \in DOMAIN outputs |-> outputBytes(outputs[i]).size])

\* 10000000000 (part_000 line 92)
FeeCeiling == [i \in 1 .. 5 |-> IF i = 1 THEN 58368
                               ELSE IF i = 2 THEN 21515
                               ELSE IF i = 3 THEN 2 ELSE 0]

\* an output of the wallet that is not signed yet, a pay-to-public-key-hash
\* output, and the token input a burn or a swap brings along
Coin(o, v) == [outpoint |-> o, value |-> v, kind |-> "none", hexLen |-> 0]
Payment(v) == [value |-> v, kind |-> "hex", hexLen |-> 2 * TX_OUTPUT_PUBKEYHASH]
Token == Coin(0, Count(1))
\* 7 * 2^32, more than twice the fee ceiling
LargeValue == [i \in 1 .. 5 |-> IF i = 3 THEN 7 ELSE 0]
CoinValues == {Count(100), Count(200), Count(400), LargeValue}
PaymentValues == {Count(0), Count(150), Count(500)}
FeeRates == {1, 2, 100000000}
\* outputs of the wallet, each with an outpoint of its own
UtxoLists ==
    UNION {{[i \in 1 .. n |-> Coin(i, v[i])] : v \in [1 .. n -> CoinValues]} :
              n \in 0 .. MaxUtxos}
RequiredLists == {<< >>, <<Token>>}
Callers == {"burn", "swap"}
\* as many outputs as make the count of inputs take three bytes, and a
\* payment that takes all of them
VarIntBreak == 253
ManyCoins == [i \in 1 .. VarIntBreak |-> Coin(i, Count(400))]
LargePayment == Payment(Count(63700))

Unfunded == [funded |-> FALSE, funding |-> << >>, change |-> << >>,
             fee |-> Count(0)]
NoSelection == [pc |-> "none"]

InitSelect == selection = NoSelection

\* the outputs offered that are none of the required inputs
nonRequiredInputs(coins, required) ==
    SelectSeq(coins,
              LAMBDA u : \A j \in DOMAIN required :
                             required[j].outpoint # u.outpoint)

\* fundTx is called: the running totals start from the required inputs and
\* the transaction without further inputs
FundTx(caller, required, coins, outputs, feeRate) ==
    /\ selection.pc = "none"
    /\ selection' =
           [pc |-> "loop", caller |-> caller, required |-> required,
            utxos |-> coins,
            nonRequiredInputs |-> nonRequiredInputs(coins, required),
            outputs |-> outputs, feeRate |-> feeRate,
            i |-> 1, inputs |-> required,
            inAccum |-> Total(Values(required)),
            outAccum |-> Total(Values(outputs)),
            bytesAccum |-> transactionBytes(required, outputs),
            fund |-> Unfunded, error |-> ""]
    /\ UNCHANGED <<syncVars, connVars, estimate, validation>>

\* the fee of the bytes counted so far
RunningFee(sel) == Times(Count(sel.feeRate), sel.bytesAccum)

Funded(sel) == LessEq(Plus(sel.outAccum, RunningFee(sel)), sel.inAccum)

\* the loop before the patch (line 9) indexed the outputs offered
nextUtxoOfAll(sel) == sel.utxos[sel.i]

\* part_000 line 10
nextUtxo(sel) == sel.nonRequiredInputs[sel.i]

\* part_000 lines 8-13: the next output is taken in the order given, its
\* bytes and value are added to the running totals
Accumulate ==
    /\ selection.pc = "loop"
    /\ ~Funded(selection)
    /\ selection.i <= Len(selection.nonRequiredInputs)
    /\ LET utxo == nextUtxo(selection)
           utxoBytes == inputBytes(utxo).size
           utxoValue == utxo.value
       IN  selection' =
               [selection EXCEPT !.i = @ + 1,
                                 !.inputs = Append(@, utxo),
                                 !.inAccum = Plus(@, utxoValue),
                                 !.bytesAccum = @ + utxoBytes]
    /\ UNCHANGED <<syncVars, connVars, estimate, validation>>

\* the outputs are exhausted and the transaction is not funded
Exhausted ==
    /\ selection.pc = "loop"
    /\ ~Funded(selection)
    /\ selection.i > Len(selection.nonRequiredInputs)
    /\ selection' = [selection EXCEPT !.pc = "caller", !.fund = Unfunded]
    /\ UNCHANGED <<syncVars, connVars, estimate, validation>>

\* the change output of the wallet
ChangeOutput(v) == Payment(v)

\* part_000 lines 32 and 75
dustThreshold(output, feeRate) == Count(TX_DUST_THRESHOLD)

\* what is left goes to a change output if, its own bytes paid for, it is
\* worth more than the dust threshold, and into the fee otherwise
Finalized(sel) ==
    LET fee == RunningFee(sel)
        changeFee ==
            Times(Count(sel.feeRate), outputBytes(ChangeOutput(Count(0))).size)
        paid == Plus(Plus(sel.outAccum, fee), changeFee)
        dust == dustThreshold(ChangeOutput(Count(0)), sel.feeRate)
        funding == SubSeq(sel.inputs, Len(sel.required) + 1, Len(sel.inputs))
    IN  IF Less(Plus(paid, dust), sel.inAccum)
        THEN [funded |-> TRUE, funding |-> funding,
              change |-> <<ChangeOutput(Minus(sel.inAccum, paid))>>,
              fee |-> Plus(fee, changeFee)]
        ELSE [funded |-> TRUE, funding |-> funding, change |-> << >>,
              fee |-> Minus(sel.inAccum, sel.outAccum)]

\* a ceiling that stops no fee
TooLargeFeeNever(fee) == FALSE

\* part_000 line 92
TooLargeFee(fee) == Less(FeeCeiling, fee)

\* part_000 lines 91-94: the fee ceiling
Finalize ==
    /\ selection.pc = "loop"
    /\ Funded(selection)
    /\ selection' =
           IF TooLargeFee(Finalized(selection).fee)
           THEN [selection EXCEPT !.pc = "done",
                                  !.error = "Filepay Error: Too large fee"]
           ELSE [selection EXCEPT !.pc = "caller",
                                  !.fund = Finalized(selection)]
    /\ UNCHANGED <<syncVars, connVars, estimate, validation>>

\* a burn that checked for a negative fee
burnCheckNegative(fund) ==
    IF Less(fund.fee, Count(0)) THEN "Couldn't fund burn transaction" ELSE ""

\* burn.ts lines 110-112 and 178-180
burnCheck(fund) ==
    IF fund.fee = Count(0) THEN "Couldn't fund burn transaction" ELSE ""

\* OpenOrders.tsx lines 475-477
swapCheck(fund) ==
    IF ~fund.funded THEN "Insufficient funds to complete swap" ELSE ""

CallerChecks ==
    /\ selection.pc = "caller"
    /\ selection' =
           [selection EXCEPT
               !.pc = "done",
               !.error = IF selection.caller = "burn"
                         THEN burnCheck(selection.fund)
                         ELSE swapCheck(selection.fund)]
    /\ UNCHANGED <<syncVars, connVars, estimate, validation>>

\* the caller offers its outputs, with or without the required inputs
\* among them
Offers(required, coins) == {coins, required \o coins, coins \o required}

NextSelect ==
    \/ \E caller \in Callers, required \in RequiredLists, coins \in UtxoLists,
          v \in PaymentValues, feeRate \in FeeRates :
           \E offered \in Offers(required, coins) :
               FundTx(caller, required, offered, <<Payment(v)>>, feeRate)
    \/ \E caller \in Callers :
           FundTx(caller, << >>, ManyCoins, <<LargePayment>>, 1)
    \/ Accumulate
    \/ Exhausted
    \/ Finalize
    \/ CallerChecks

(***************************************************************************)
(* Glyph protocol lists (part_010): the identifiers, their requirements    *)
(* and exclusions, and the validation of a list. A list is a sequence of   *)
(* identifiers, registered or not, in the order the caller gives them.     *)
(***************************************************************************)
GLYPH_FT == 1
GLYPH_NFT == 2
GLYPH_DAT == 3
GLYPH_DMINT == 4
GLYPH_MUT == 5
GLYPH_BURN == 6
GLYPH_CONTAINER == 7
GLYPH_ENCRYPTED == 8
GLYPH_TIMELOCK == 9
GLYPH_AUTHORITY == 10
GLYPH_WAVE == 11

\* the registered identifiers and one that is not registered
ProtocolIds == GLYPH_FT .. GLYPH_WAVE + 1

ProtocolLists ==
    UNION {[1 .. n -> ProtocolIds] : n \in 0 .. MaxProtocols}

\* lines 37-45; an identifier without an entry requires nothing
PROTOCOL_REQUIREMENTS(protocol) ==
    CASE protocol = GLYPH_DMINT -> <<GLYPH_FT>>
      [] protocol = GLYPH_MUT -> <<GLYPH_NFT>>
      [] protocol = GLYPH_CONTAINER -> <<GLYPH_NFT>>
      [] protocol = GLYPH_ENCRYPTED -> <<GLYPH_NFT>>
      [] protocol = GLYPH_TIMELOCK -> <<GLYPH_ENCRYPTED>>
      [] protocol = GLYPH_AUTHORITY -> <<GLYPH_NFT>>
      [] protocol = GLYPH_WAVE -> <<GLYPH_NFT, GLYPH_MUT>>
      [] OTHER -> << >>

\* lines 48-57
PROTOCOLS_REQUIRE_BASE ==
    {GLYPH_DMINT, GLYPH_MUT, GLYPH_BURN, GLYPH_CONTAINER, GLYPH_ENCRYPTED,
     GLYPH_TIMELOCK, GLYPH_AUTHORITY, GLYPH_WAVE}

\* lines 60-62
PROTOCOL_EXCLUSIONS == << <<GLYPH_FT, GLYPH_NFT>> >>

\* Array.prototype.includes
includes(protocols, x) == \E i \in 1 .. Len(protocols) : protocols[i] = x

\* lines 87-91
hasBaseType(protocols) ==
    \/ includes(protocols, GLYPH_FT)
    \/ includes(protocols, GLYPH_NFT)
    \/ includes(protocols, GLYPH_DAT)

\* lines 98-102: the positions of the exclusions that the list breaks
Excluded(protocols) ==
    {k \in 1 .. Len(PROTOCOL_EXCLUSIONS) :
        /\ includes(protocols, PROTOCOL_EXCLUSIONS[k][1])
        /\ includes(protocols, PROTOCOL_EXCLUSIONS[k][2])}

\* lines 105-114: member i of the list lacks its requirement j
Unmet(protocols) ==
    {ij \in (1 .. Len(protocols)) \X (1 .. 2) :
        /\ ij[2] <= Len(PROTOCOL_REQUIREMENTS(protocols[ij[1]]))
        /\ ~includes(protocols,
                     PROTOCOL_REQUIREMENTS(protocols[ij[1]])[ij[2]])}

\* the one the nested loops come to first
FirstUnmet(protocols) ==
    CHOOSE ij \in Unmet(protocols) :
        \A kl \in Unmet(protocols) :
            ij[1] < kl[1] \/ (ij[1] = kl[1] /\ ij[2] <= kl[2])

Invalid(error) == [valid |-> FALSE, error |-> error]
Valid == [valid |-> TRUE, error |-> Undefined]

\* lines 96-129; an error message is written as its text's kind and the
\* protocols it names
validateProtocols(protocols) ==
    IF Excluded(protocols) # {}
    THEN LET k == CHOOSE x \in Excluded(protocols) :
                      \A y \in Excluded(protocols) : x <= y
         IN  Invalid(<<"are mutually exclusive", PROTOCOL_EXCLUSIONS[k][1],
                       PROTOCOL_EXCLUSIONS[k][2]>>)
    ELSE IF Unmet(protocols) # {}
    THEN LET ij == FirstUnmet(protocols)
         IN  Invalid(<<"requires", protocols[ij[1]],
                       PROTOCOL_REQUIREMENTS(protocols[ij[1]])[ij[2]]>>)
    ELSE IF Len(protocols) = 1 /\ protocols[1] \in PROTOCOLS_REQUIRE_BASE
    THEN Invalid(<<"cannot exist alone", protocols[1]>>)
    ELSE IF /\ includes(protocols, GLYPH_BURN)
            /\ ~includes(protocols, GLYPH_FT)
            /\ ~includes(protocols, GLYPH_NFT)
    THEN Invalid(<<"Burn must accompany">>)
    ELSE Valid

NoValidation == [protocols |-> << >>, called |-> FALSE]

InitGlyph == validation = NoValidation

\* the function is synchronous: its result stands until the caller took it
ValidateProtocols(protocols) ==
    /\ ~validation.called
    /\ validation' = [protocols |-> protocols, called |-> TRUE,
                      result |-> validateProtocols(protocols)]
    /\ UNCHANGED <<syncVars, connVars, estimate, selection>>

Validated ==
    /\ validation.called
    /\ validation' = NoValidation
    /\ UNCHANGED <<syncVars, connVars, estimate, selection>>

NextGlyph ==
    \/ \E protocols \in ProtocolLists : ValidateProtocols(protocols)
    \/ Validated

Init == InitSync /\ InitConn /\ InitTx /\ InitSelect /\ InitGlyph

SpecSync == Init /\ [][NextSync]_vars

SpecConn == Init /\ [][NextConn]_vars

\* the connection manager with the wallet broadcasting transactions
NextBroadcast ==
    \/ NextConn
    \/ Broadcast

SpecBroadcast == Init /\ [][NextBroadcast]_vars

SpecSize == Init /\ [][NextSize]_vars

SpecSelect == Init /\ [][NextSelect]_vars

SpecRace == Init /\ [][NextRace]_vars

SpecGlyph == Init /\ [][NextGlyph]_vars

SpecLive == Init /\ [][NextLive]_vars /\ FairLive

(***************************************************************************)
(* Properties of the sync engine.                                          *)
(***************************************************************************)
AllIdle == \A p \in Procs : pc[p] = "idle"

OutpointOf(r) == <<r.txid, r.vout>>

\* outpoints of the cached outputs of script s with spent = 0
CachedUnspent(s) ==
    {OutpointOf(txo[i]) : i \in {j \in DOMAIN txo :
                                    txo[j].spent = 0 /\ txo[j].script = s}}

\* script s has gone through a completed refresh
Refreshed(s) ==
    /\ subscriptionStatus[s] # NoRecord
    /\ subscriptionStatus[s].status # EmptyStatus

\* C1 (as claimed): after any sequence of completed refreshes of a script,
\* its cached outputs with spent = 0 are exactly the outpoints of the last
\* snapshot fetched, whatever was added, removed or re-added before.
C1_Convergence ==
    \A s \in Scripts :
        (AllIdle /\ Refreshed(s)) => CachedUnspent(s) = lastSnapshot[s]

\* the step of invocation p that runs lines 144-154
MarkSpentStep(p) == pc[p] = "spent" /\ pc'[p] = "added"

\* C2 (as claimed): a refresh marks spent exactly the cached unspent outputs
\* of its own script whose outpoint is absent from the fetched set; outputs
\* of other scripts keep their flag; no record is deleted.
C2_SpentExactlyOwnMissing ==
    [][\A p \in Procs : MarkSpentStep(p) =>
          /\ Len(txo') = Len(txo)
          /\ \A i \in DOMAIN txo :
                /\ txo'[i] = [txo[i] EXCEPT !.spent = txo'[i].spent]
                /\ (txo[i].spent = 0 /\ txo'[i].spent = 1) <=>
                      /\ txo[i].spent = 0
                      /\ txo[i].script = scriptHash[p]
                      /\ OutpointOf(txo[i]) \notin OutpointsOf(utxos[p])
                /\ txo[i].spent = 1 => txo'[i].spent = 1]_vars

\* C3: an event whose token equals the stored one returns the empty result
\* and never sends a listunspent request.
C3_UnchangedNoRequest ==
    \A p \in Procs :
        sameToken[p] =>
            /\ pc[p] = "unchanged"
            /\ ~requested[p]
            /\ added[p] = << >> /\ confs[p] = NoConfs /\ spent[p] = {}

C3_Witness == \E p \in Procs : sameToken[p] /\ pc[p] = "unchanged"

\* C4 (as claimed): an event repeating the stored token leaves the cache and
\* the script's subscription-status record exactly as they were.
C4_RepeatedTokenNoOp ==
    [][\A p \in Procs :
          (pc[p] = "idle" /\ pc'[p] # "idle" /\ sameToken'[p]) =>
              /\ txo' = txo
              /\ subscriptionStatus' = subscriptionStatus]_vars

\* C5: after a failed fetch the stored token is not the token of the failed
\* refresh, and an event carrying that token again is not short-circuited.
C5_FailedFetchRetried ==
    \A s \in Scripts :
        lastFailed[s] # EmptyStatus =>
            /\ subscriptionStatus[s] # NoRecord
            /\ subscriptionStatus[s].status # lastFailed[s]
            /\ \A p \in Procs :
                  (pc[p] # "idle" /\ scriptHash[p] = s
                       /\ newStatus[p] = lastFailed[s]) => pc[p] # "unchanged"

\* a retry of a failed token has fetched
C5_Witness ==
    \E p \in Procs :
        /\ pc[p] = "scan"
        /\ newStatus[p] = lastFailed[scriptHash[p]]

\* C6 (as claimed): no state shows a refresh's spent flags written while a
\* height update of the same refresh is still to be written.
C6_SpentAndHeightsTogether ==
    \A p \in Procs :
        ~ /\ \E r \in spent[p] : txo[r.id].spent = 1
          /\ \E id \in DOMAIN confs[p] :
                txo[id].height # HeightOrInfinity(confs[p][id].height)

\* the reported height as the cache stores it: one sentinel for unconfirmed
Normalised(h) == IF h = 0 THEN Infinity ELSE h

\* C7 (as claimed): a fetched output is a reconfirmation iff it is cached
\* and its height, unconfirmed being one sentinel on both sides, differs
\* from the cached height; applying it changes the height only.
C7_ReconfirmedIffHeightDiffers ==
    [][\A p \in Procs :
          /\ (pc[p] = "scan" /\ pc'[p] = "spent") =>
                DOMAIN confs'[p] =
                    {id \in DOMAIN txo :
                        \E i \in DOMAIN utxos[p] :
                            /\ Exist(utxos[p][i].tx_hash, utxos[p][i].tx_pos) = id
                            /\ txo[id].height # Normalised(utxos[p][i].height)}
          /\ (pc[p] = "confs" /\ pc'[p] = "returned") =>
                /\ Len(txo') = Len(txo)
                /\ \A i \in DOMAIN txo :
                      /\ txo'[i] = [txo[i] EXCEPT !.height = txo'[i].height]
                      /\ i \notin DOMAIN confs[p] => txo'[i] = txo[i]]_vars

\* how often outpoint o is reported in the added list of invocation p
TimesAdded(p, o) ==
    Cardinality({i \in DOMAIN added[p] : OutpointOf(added[p][i]) = o})

AddedWellFormed(p) ==
    \A i \in DOMAIN added[p] :
        /\ added[p][i].spent = 0
        /\ added[p][i].change = 1 <=> added[p][i].txid \in broadcast
        /\ added[p][i].change \in {0, 1}

\* the fetched record of outpoint o in invocation p
Fetched(p, o) ==
    utxos[p][CHOOSE i \in DOMAIN utxos[p] :
                 <<utxos[p][i].tx_hash, utxos[p][i].tx_pos>> = o]

\* C8 (as claimed): every fetched output not in the cache is in the added
\* list exactly once, unspent, its change flag set iff the wallet broadcast
\* its transaction.
C8_EveryNewOutputAdded ==
    \A p \in Procs :
        pc[p] \in {"confs", "returned"} =>
            /\ AddedWellFormed(p)
            /\ \A o \in Outpoints :
                  TimesAdded(p, o) =
                      IF o \in OutpointsOf(utxos[p]) \ seen[p] THEN 1 ELSE 0

\* C8 (amended): every fetched output not in the cache for which the script
\* builder yields a script is in the added list exactly once, unspent, its
\* change flag set iff the wallet broadcast its transaction; an output
\* without a script is not reported.
C8_EveryBuildableNewOutputAdded ==
    \A p \in Procs :
        pc[p] \in {"confs", "returned"} =>
            /\ AddedWellFormed(p)
            /\ \A o \in Outpoints :
                  TimesAdded(p, o) =
                      IF /\ o \in OutpointsOf(utxos[p]) \ seen[p]
                         /\ scriptBuilder(scriptHash[p], Fetched(p, o)) # Undefined
                      THEN 1 ELSE 0

\* a refresh has reported a new output of the wallet's own transaction next
\* to an output that was cached already
C8_Witness ==
    \E p \in Procs :
        /\ pc[p] = "returned"
        /\ \E i \in DOMAIN added[p] : added[p][i].change = 1
        /\ seen[p] # {}

(***************************************************************************)
(* Properties of the connection manager.                                   *)
(***************************************************************************)
\* the endpoint at the current position of the list
Candidate(w) == w.servers[w.serverNum + 1]

\* the manager holds a connection or is opening one
Live(w) == w.client.state \in {"connecting", "open"}

\* the clients other than the current one whose sockets are open or opening
LiveStrays(w) == w.strays[<<"connecting", "">>] + w.strays[<<"open", "">>]

\* w is the state after a connection attempt to endpoint e was started in
\* state v: there is a new client for e and the failover timer is armed
AttemptStarted(v, w, e) ==
    /\ w.client.gen # v.client.gen
    /\ w.client.state = "connecting"
    /\ w.client.endpoint = e
    /\ w.connectTimer = "tryNextServer"

\* C9: connect(identity) changes nothing exactly when the manager is
\* connected to the candidate endpoint for the same identity; in every other
\* case it tears down the existing connection (no client but the new one is
\* left open or opening), opens a connection to the candidate endpoint and
\* arms the failover timer. "Connected" is read in the claim's favour as
\* connected or connecting, and the candidate is an endpoint for which a
\* client can be constructed.
C9_ConnectNoOpIffConnected ==
    \A a \in Addresses :
        (servers # << >> /\ Candidate(Cur) \notin Malformed
                         /\ ~connect(Cur, a).overflow) =>
            IF Live(Cur) /\ endpoint = Candidate(Cur) /\ address = a
            THEN connect(Cur, a) = Cur
            ELSE /\ AttemptStarted(Cur, connect(Cur, a), Candidate(Cur))
                 /\ LiveStrays(connect(Cur, a)) = 0

\* C10: when the failover timer fires and the manager is not connected, the
\* position advances to (serverNum + 1) mod L and a connection attempt to the
\* endpoint there starts: a new client is created and the failover timer is
\* armed again; for every list length L >= 1. The endpoint there is one for
\* which a client can be constructed.
C10_FailoverAdvancesAndRetries ==
    [][(/\ ConnectTimerFires
        /\ ~connected(Cur)
        /\ servers[((serverNum + 1) % Len(servers)) + 1] \notin Malformed)
       => /\ serverNum' = (serverNum + 1) % Len(servers)
          /\ client'.gen # client.gen
          /\ client'.state = "connecting"
          /\ client'.endpoint = servers[serverNum' + 1]
          /\ connectTimer' = "tryNextServer"]_vars

\* a scheduled tryNextServer runs
TryNextServerFires ==
    \/ ConnectTimerFires
    \/ reconnectTimer = "tryNextServer" /\ ReconnectTimerFires
    \/ OrphanTimerFires("tryNextServer")

\* this step arms the pause timer
EntersPause ==
    /\ reconnectTimer' = "pauseEnd"
    /\ \/ reconnectTimer # "pauseEnd"
       \/ orphans'["pauseEnd"] > orphans["pauseEnd"]

\* C11: for a list of length L (of endpoints for which a client can be
\* constructed) a failover enters Pause exactly when it is the (2 x L)-th
\* consecutive failed failover: not before, and then instead of a retry.
C11_PauseAfterTwiceTheList ==
    [][(/\ TryNextServerFires
        /\ \A i \in DOMAIN servers : servers[i] \notin Malformed)
       => (EntersPause <=> connectionAttempts' >= 2 * Len(servers))]_vars

\* C12: when the connected event of the manager's client has been handled,
\* the attempt counter is zero and no timer at all is pending.
C12_ConnectedClearsEverything ==
    [][ClientConnected
       => /\ connectionAttempts' = 0
          /\ connectTimer' = NoTimer
          /\ reconnectTimer' = NoTimer
          /\ \A cb \in TimerCallbacks : orphans'[cb] = 0]_vars

\* the manager's client was closed with a reason and its close event handled
ClosedByUser == client.state = "closed" /\ client.reason \in DisconnectReasons

\* a close event without a reason is handled in this step
CloseWithoutReason ==
    \/ ClientDropped
    \/ client.reason = "" /\ ClientClosed
    \/ StrayClosed("")
    \/ \E k \in StrayKinds : StrayDropped(k)

\* C13: after the close event of a disconnect with a reason no client is
\* created until the wallet calls connect (or reconnect) again; a close
\* event without a reason leaves a reconnect timer pending.
C13_UserDisconnectStaysDown ==
    [][/\ (/\ ClosedByUser
           /\ ~(\E a \in Addresses : Connect(a))
           /\ ~Reconnect) => client'.gen = client.gen
       /\ CloseWithoutReason => reconnectTimer' = "tryNextServer"]_vars

\* C14: broadcast ends with the not-connected error, nothing handed to a
\* client, in every state in which the manager is not connected, and hands
\* the transaction to the client only when it is.
C14_BroadcastNeedsLiveConnection ==
    [][Broadcast
       => broadcastResult' =
              IF connected(Cur) THEN "requested" ELSE "NotConnected"]_vars

\* C15: at most one client of the manager has a socket that is open or
\* opening.
C15_AtMostOneLiveClient ==
    LiveStrays(Cur) + (IF Live(Cur) THEN 1 ELSE 0) <= 1

\* the pending timers set by reconnectTimer = setTimeout(cb, ...)
PendingReconnect(cb) ==
    orphans[cb] + (IF reconnectTimer = cb THEN 1 ELSE 0)

\* C16: at most one reconnect timer and at most one pause timer is pending
\* (the failover timer has one handle that is always cleared before it is
\* armed).
C16_AtMostOneTimerOfEachKind ==
    /\ PendingReconnect("tryNextServer") <= 1
    /\ PendingReconnect("pauseEnd") <= 1

\* the manager is in Pause: the attempts are used up and the cool-down timer
\* is pending
Paused ==
    /\ connectionAttempts >= MAX_ATTEMPTS_BEFORE_PAUSE
    /\ PendingReconnect("pauseEnd") > 0

\* the cool-down timer fires
PauseTimerFires ==
    \/ reconnectTimer = "pauseEnd" /\ ReconnectTimerFires
    \/ OrphanTimerFires("pauseEnd")

\* C27 (as claimed): in Pause a scheduled failover starts no connection
\* attempt; when the cool-down timer fires the attempt counter is reset to
\* zero and an attempt to the endpoint at the current position begins: a
\* client is created for it and the failover timer is armed. The endpoint
\* there is one for which a client can be constructed.
C27_PauseHoldsThenRetries ==
    [][/\ (Paused /\ TryNextServerFires) => client'.gen = client.gen
       /\ (PauseTimerFires /\ Candidate(Cur) \notin Malformed)
              => /\ connectionAttempts' = 0
                 /\ client'.gen # client.gen
                 /\ client'.state = "connecting"
                 /\ client'.endpoint = Candidate(Cur)
                 /\ connectTimer' = "tryNextServer"]_vars

\* nothing is left that could start a connection: no timer is pending, no
\* socket is opening and no close event is still to be delivered
Idle ==
    /\ connectTimer = NoTimer
    /\ reconnectTimer = NoTimer
    /\ \A cb \in TimerCallbacks : orphans[cb] = 0
    /\ client.state \notin {"connecting", "closing"}
    /\ \A k \in StrayKinds : k[1] \in {"connecting", "closing"} => strays[k] = 0

\* C28 (as claimed): with a list in which the endpoints that clients can be
\* made for accept every connection, once connect(identity) has been called
\* the manager is connected again and again, whatever happened before, and
\* it is never at once not connected and idle.
C28_EventuallyConnectedNeverIdle ==
    /\ [](ready => <>connected(Cur))
    /\ [](ready => (connected(Cur) \/ ~Idle))

\* C29 (as claimed): a changeEndpoint that cannot construct the new client
\* returns false and leaves the recorded endpoint and the client as they
\* were; and in every state the recorded endpoint is the endpoint the current
\* client was created for.
C29_FailedChangeLeavesManager ==
    /\ \A e \in Malformed :
           client # NoClient =>
               LET w == changeEndpoint(Cur, e)
               IN  /\ w.result = FALSE
                   /\ w.endpoint = endpoint
                   /\ w.client = client
    /\ client # NoClient => endpoint = client.endpoint

(***************************************************************************)
(* Properties of the size estimator.                                       *)
(***************************************************************************)
\* the count n is at least 2^k, for k a multiple of 16
AtLeastPow(n, k) == \E i \in (k \div 16) + 1 .. 5 : n[i] # 0

\* C17 (as claimed): varIntSize(n) is 1 below 253, 3 up to 65535, 5 up to
\* 2^32 - 1 and 9 for every larger n.
C17_VarIntSizeEveryCount ==
    estimate.fn = "varIntSize" =>
        estimate.result =
            IF ~AtLeastPow(estimate.arg, 16) /\ estimate.arg[1] < 253
            THEN Returns(1)
            ELSE IF ~AtLeastPow(estimate.arg, 16) THEN Returns(3)
            ELSE IF ~AtLeastPow(estimate.arg, 32) THEN Returns(5)
            ELSE Returns(9)

\* C17 (amended): varIntSize(n) is 1 below 253, 3 up to 65535, 5 up to
\* 2^32 - 1, 9 up to 2^64 - 1, and fails with "Invalid VarInt" above;
\* 252 -> 1, 253 -> 3, 65535 -> 3, 65536 -> 5.
C17_VarIntSizeUpTo64Bits ==
    estimate.fn = "varIntSize" =>
        /\ estimate.result =
               IF ~AtLeastPow(estimate.arg, 16) /\ estimate.arg[1] < 253
               THEN Returns(1)
               ELSE IF ~AtLeastPow(estimate.arg, 16) THEN Returns(3)
               ELSE IF ~AtLeastPow(estimate.arg, 32) THEN Returns(5)
               ELSE IF ~AtLeastPow(estimate.arg, 64) THEN Returns(9)
               ELSE InvalidVarInt
        /\ estimate.arg = Count(252) => estimate.result = Returns(1)
        /\ estimate.arg = Count(253) => estimate.result = Returns(3)
        /\ estimate.arg = Count(65535) => estimate.result = Returns(3)
        /\ estimate.arg = Count(65536) => estimate.result = Returns(5)

\* varIntSize has been called with 253
C17_Witness ==
    /\ estimate.fn = "varIntSize"
    /\ estimate.arg = Count(253)
    /\ estimate.result = Returns(3)

\* the number of bytes of a script
BytesOf(script) == script.hexLen \div 2

\* the bytes of the count prefix of a script of len bytes
PrefixBytes(len) == IF len < 253 THEN 1 ELSE IF len <= 65535 THEN 3 ELSE 5

Prefix(sel, k) == sel.required \o SubSeq(sel.nonRequiredInputs, 1, k)

\* no part of what is offered pays for the outputs and its own fee
Insufficient(sel) ==
    \A k \in 0 .. Len(sel.nonRequiredInputs) :
        Less(Total(Values(Prefix(sel, k))),
             Plus(Total(Values(sel.outputs)),
                  Times(Count(sel.feeRate),
                        transactionBytes(Prefix(sel, k), sel.outputs))))

C21_FeeWithinCeiling ==
    selection.pc \in {"caller", "done"} =>
        /\ selection.fund.funded => LessEq(selection.fund.fee, FeeCeiling)
        /\ (Funded(selection) /\ Less(FeeCeiling, Finalized(selection).fee)) =>
               /\ selection.error = "Filepay Error: Too large fee"
               /\ selection.fund = Unfunded

\* a funded transaction whose fee was above the ceiling has been refused
C21_Witness ==
    /\ selection.pc = "done"
    /\ Funded(selection)
    /\ Less(FeeCeiling, Finalized(selection).fee)
    /\ selection.error = "Filepay Error: Too large fee"

\* what the inputs leave after outputs, fee and the fee of a change output,
\* against a dust threshold of the fee rate times the bytes of the change
\* output
AboveRateDust(sel) ==
    LET changeBytes == outputBytes(ChangeOutput(Count(0))).size
        paid == Plus(Plus(sel.outAccum, RunningFee(sel)),
                     Times(Count(sel.feeRate), changeBytes))
        dust == Times(Count(sel.feeRate), changeBytes)
    IN  Less(Plus(paid, dust), sel.inAccum)

\* C22 (as claimed): a change output is appended iff what is left, the change
\* output's own bytes paid for, is above the dust threshold computed from
\* the fee rate and the bytes of the change output; otherwise there is no
\* change output and what is left goes into the fee.
C22_ChangeIffAboveRateDust ==
    (selection.pc \in {"caller", "done"} /\ selection.fund.funded) =>
        /\ selection.fund.change # << >> <=> AboveRateDust(selection)
        /\ ~AboveRateDust(selection) =>
               selection.fund.fee =
                   Minus(selection.inAccum, selection.outAccum)

\* C23 (as claimed): for a selection returned as funded, transactionBytes of
\* the selected inputs and the final outputs is the number of bytes
\* accumulated during selection plus the bytes of the change output if one
\* was appended, whatever the number of inputs.
C23_FinalBytesAreAccumulatedBytes ==
    (selection.pc \in {"caller", "done"} /\ selection.fund.funded) =>
        transactionBytes(selection.inputs,
                         selection.outputs \o selection.fund.change)
            = selection.bytesAccum
                + SeqSum([i \in DOMAIN selection.fund.change |->
                             outputBytes(selection.fund.change[i]).size])

\* the outputs offered whose outpoint is that of no required input, in the
\* order they were offered
Remainder(sel) ==
    SelectSeq(sel.utxos,
              LAMBDA u : u.outpoint \notin
                             {sel.required[j].outpoint :
                                  j \in DOMAIN sel.required})

\* C24: the loop has visited the first of the outputs that are not required,
\* each once and in the order offered, and no required input; no outpoint
\* is twice among the selected inputs and every value is counted once.
C24_LoopVisitsRemainderOnce ==
    selection.pc # "none" =>
        /\ selection.inputs =
               selection.required
                   \o SubSeq(Remainder(selection), 1, selection.i - 1)
        /\ \A j, k \in DOMAIN selection.inputs :
               j # k =>
                   selection.inputs[j].outpoint # selection.inputs[k].outpoint
        /\ selection.inAccum = Total(Values(selection.inputs))

\* two outputs were visited of a list that offered the required input too
C24_Witness ==
    /\ selection.pc = "done"
    /\ selection.required # << >>
    /\ Len(selection.utxos) > Len(Remainder(selection))
    /\ selection.utxos[1] = Token
    /\ selection.i = 3

(***************************************************************************)
(* Properties of two refreshes at once.                                    *)
(***************************************************************************)
\* no outpoint has two records in the cache
CachedOnce ==
    \A i, j \in DOMAIN txo :
        i # j => OutpointOf(txo[i]) # OutpointOf(txo[j])

\* C25 (as claimed): two refreshes of the same script that interleave at
\* their awaits leave what a serial execution leaves: no outpoint is in the
\* added lists of both, and the cache holds every outpoint once.
C25_RacingRefreshesSerialise ==
    /\ \A o \in Outpoints :
           ~(TimesAdded("p1", o) > 0 /\ TimesAdded("p2", o) > 0)
    /\ CachedOnce

\* invocation p holds the answer to its request, and a refresh with a newer
\* status token has completed since
Superseded(p) ==
    /\ pc[p] \in {"scan", "spent", "added", "confs", "returned"}
    /\ subscriptionStatus[scriptHash[p]] # NoRecord
    /\ subscriptionStatus[scriptHash[p]].status > newStatus[p]

\* C26 (as claimed): the answer to a request that a newer refresh has
\* superseded is discarded: no step of the older invocation changes the
\* cache or the stored status token after the newer refresh.
C26_SupersededResponseDiscarded ==
    [][\A p \in Procs :
          (Superseded(p) /\ pc'[p] # pc[p]) =>
              /\ txo' = txo
              /\ subscriptionStatus'[scriptHash[p]].status =
                     subscriptionStatus[scriptHash[p]].status]_vars


(***************************************************************************)
(* Properties of the protocol validation.                                  *)
(***************************************************************************)
\* C30 (as claimed): every list that validateProtocols reports valid contains
\* a base token type (FT, NFT or DAT); in particular no empty list and no
\* list of extensions or action markers only is reported valid.
C30_ValidListHasBaseType ==
    (validation.called /\ validation.result.valid) =>
        hasBaseType(validation.protocols)

====
